---- MODULE Spec2Model ----
(***************************************************************************)
(* Time-lock client (crypto-core/client-script/src/bin/main.rs).           *)
(*                                                                         *)
(* The model follows send_time_lock_message statement by statement: the   *)
(* threshold computation in f32 arithmetic, the committee scan of          *)
(* get_agent_list, the collection of the HashMap keys, the encapsulation  *)
(* calls into the cryptography module, sealing, payload encoding, gas     *)
(* price read, signing and sending.  Every `.unwrap()` on a fallible      *)
(* result is a panic that ends the process.                               *)
(***************************************************************************)
EXTENDS Integers, Sequences, FiniteSets, TLC

VARIABLES
    committeeSize,   \* chain state: value returned by the `committeeSize` getter
    committee,       \* chain state: index slot -> address (0 is the zero address)
    taskId,          \* number of the current run of the client
    caller,          \* who invoked send_time_lock_message: "main" or "direct"
    now,             \* get_time() at the moment the Task is created
    pc,              \* position in send_time_lock_message / get_agent_list
    n,               \* argument n
    decryption_time, \* argument decryption_time
    t,               \* let t = get_threshold(n)
    committee_size,  \* local of get_agent_list
    counter,         \* local of get_agent_list
    agents,          \* HashMap<u64, Agent>: function from key to Agent
    indexes,         \* Vec<u64> collected from agents.keys()
    pks,             \* Vec<G1Projective> aligned with indexes
    r,               \* ephemeral scalar
    g1r,             \* compressed r*G1
    g2r,             \* compressed r*G2
    k,               \* symmetric key
    alphas,          \* blinded shares
    ciphertext,      \* result of cryptography::encrypt
    data,            \* ABI payload
    gas_price,       \* gas price placed in the transaction
    signed,          \* signed raw transaction
    sent,            \* transactions accepted by the node in this run
    reads,           \* history: number of successful `committee(i)` reads per slot
    trace,           \* history: stage start/end events of this run
    rDraws,          \* history: number of gen_r() calls of this run
    sealLog          \* history: every encrypt call of every run

vars == <<committeeSize, committee, taskId, caller, now, pc, n, decryption_time, t,
          committee_size, counter, agents, indexes, pks, r, g1r, g2r, k, alphas,
          ciphertext, data, gas_price, signed, sent, reads, trace, rDraws, sealLog>>

----------------------------------------------------------------------------
(* Bounds of the model *)

NumSlots == 4
MaxCounter == 5
MaxCommittee == 3
MaxN == 4
MaxTime == 1
MaxThresholdN == 262144

(* Small input sets *)
TaskIds == {1, 2}
Scalars == {1, 2}
NetworkGasPrices == {10, 11}

----------------------------------------------------------------------------
(* Program constants *)

MainN == 3
Hour == 3600
F32Mantissa051 == 8556380
FixedNonce == "000000000001"
message == "Test one hour message 10"

----------------------------------------------------------------------------
(* IEEE-754 single precision, as far as get_threshold needs it.            *)
(* 0.51f32 = F32Mantissa051 * 2^-24.  A product is kept exactly in two     *)
(* limbs of base 2^12 and then rounded to 24 significant bits, ties to     *)
(* even.                                                                   *)

RECURSIVE Pow2(_)
Pow2(e) == IF e = 0 THEN 1 ELSE 2 * Pow2(e - 1)

RECURSIVE BitLen(_)
BitLen(x) == IF x = 0 THEN 0 ELSE 1 + BitLen(x \div 2)

Limb == 4096

\* round Q + rem/(2*half) to the nearest integer, ties to even
RoundHalfEven(Q, rem, half) ==
    IF rem > half \/ (rem = half /\ Q % 2 = 1) THEN Q + 1 ELSE Q

\* n as f32: the integer rounded to 24 significant bits (exact below 2^24)
U64ToF32(x) ==
    LET drop == BitLen(x) - 24
    IN  IF drop <= 0 THEN x
        ELSE LET u == Pow2(drop)
             IN  RoundHalfEven(x \div u, x % u, u \div 2) * u

\* x * 0.51f32 rounded to f32, returned as <<mantissa, shift>>: the value
\* mantissa * 2^(shift - 24)
F32MulBy051(x) ==
    LET A == x * (F32Mantissa051 \div Limb)
        B == x * (F32Mantissa051 % Limb)
        H == A + (B \div Limb)
        L == B % Limb
        drop == BitLen(H) + 12 - 24
    IN  IF drop <= 0 THEN <<H * Limb + L, 0>>
        ELSE IF drop < 12
        THEN LET u == Pow2(drop)
                 Q == H * (Limb \div u) + (L \div u)
             IN  <<RoundHalfEven(Q, L % u, u \div 2), drop>>
        ELSE LET u == Pow2(drop - 12)
                 Q == H \div u
             IN  <<RoundHalfEven(Q, (H % u) * Limb + L, u * (Limb \div 2)), drop>>

\* f32::ceil followed by `as u64`
F32CeilAsU64(f) ==
    LET d == Pow2(24 - f[2])
    IN  (f[1] + d - 1) \div d

get_threshold_floor(x) ==
    LET f == F32MulBy051(U64ToF32(x))
    IN  f[1] \div Pow2(24 - f[2])

get_threshold(x) == F32CeilAsU64(F32MulBy051(U64ToF32(x)))

----------------------------------------------------------------------------
(* Chain state read through the contract *)

Slots == 0 .. (NumSlots - 1)

\* the address registered in slot i, when one is registered
AddressOfSlot(i) == i + 1

\* the contract's `committee(index)` getter; slots past the registered ones
\* hold the zero address
get_agent_address(index) == IF index \in Slots THEN committee[index] ELSE 0

\* the contract's `publicKeys(address)` getter, decoded to a G1 point
get_agent_pk(address) == <<"G1", address>>

Agent(id, address, pk) == [id |-> id, address |-> address, pk |-> pk]

\* agents.len()
Len_agents(ags) == Cardinality(DOMAIN ags)

\* while agents.len() < committee_size as usize
ScanContinuesInclusive(ags, size) == Len_agents(ags) <= size

ScanContinues(ags, size) == Len_agents(ags) < size

\* loop body, lines 110-114: a zero address adds nothing
ScanBodyCountsZero(ags, ctr, address) ==
    (ctr :> Agent(ctr, address, get_agent_pk(address))) @@ ags

ScanBody(ags, ctr, address) ==
    IF address # 0
    THEN (ctr :> Agent(ctr, address, get_agent_pk(address))) @@ ags
    ELSE ags

----------------------------------------------------------------------------
(* cryptography module, after the design's ThresholdEncapsulation and     *)
(* SymmetricSealer components                                               *)

gen_r_values == Scalars

get_g1r(s) == <<"G1", s>>

get_g2r(s) == <<"G2", s>>

\* (k, alphas): the key from the ephemeral scalar, one blinded share per
\* committee agent, in the order of the ids handed in
get_k_and_alphas(s, idx, pk, thr) ==
    <<  <<"k", s>>,
        [i \in 1 .. Len(idx) |-> [x |-> idx[i], pk |-> pk[i], r |-> s, t |-> thr]] >>

encrypt(msg, key, nonce) == [msg |-> msg, key |-> key, nonce |-> nonce]

----------------------------------------------------------------------------
(* Helpers of send_time_lock_message *)

\* every order in which a HashMap may iterate over its keys
KeyOrders(ags) ==
    LET K == DOMAIN ags
    IN  {s \in [1 .. Cardinality(K) -> K] : \A i, j \in 1 .. Cardinality(K) : s[i] = s[j] => i = j}

\* let decryption_time = get_time()+3600
MainDecryptionTimeNoOffset(time) == time

MainDecryptionTime(time) == time + Hour

\* make_data(&func, [decryption_time, g1r, g2r, alphas])
make_data_without_shares(dt, c1, c2, al) ==
    [decryptionTime |-> dt, g1r |-> c1, g2r |-> c2, alphas |-> <<>>]

make_data(dt, c1, c2, al) ==
    [decryptionTime |-> dt, g1r |-> c1, g2r |-> c2, alphas |-> al]

\* the statement that follows each statement of send_time_lock_message
SuccessorReencapsulating(p) ==
    CASE p = "threshold" -> "csize"
      [] p = "csize"     -> "scan"
      [] p = "scan"      -> "collect"
      [] p = "collect"   -> "gen_r"
      [] p = "gen_r"     -> "commit"
      [] p = "commit"    -> "shares"
      [] p = "shares"    -> "seal"
      [] p = "seal"      -> "gen_r"
      [] OTHER           -> "done"

Successor(p) ==
    CASE p = "threshold" -> "csize"
      [] p = "csize"     -> "scan"
      [] p = "scan"      -> "collect"
      [] p = "collect"   -> "gen_r"
      [] p = "gen_r"     -> "commit"
      [] p = "commit"    -> "shares"
      [] p = "shares"    -> "seal"
      [] p = "seal"      -> "encode"
      [] p = "encode"    -> "gas"
      [] p = "gas"       -> "sign"
      [] p = "sign"      -> "send"
      [] p = "send"      -> "done"
      [] OTHER           -> "done"

----------------------------------------------------------------------------
(* Initial states *)

ChainStates ==
    {c \in [Slots -> 0 .. NumSlots] : \A i \in Slots : c[i] \in {0, AddressOfSlot(i)}}

LocalsInit ==
    /\ caller = "none"
    /\ now = 0
    /\ n = 0
    /\ decryption_time = 0
    /\ t = 0
    /\ committee_size = 0
    /\ counter = 0
    /\ agents = << >>
    /\ indexes = << >>
    /\ pks = << >>
    /\ r = 0
    /\ g1r = << >>
    /\ g2r = << >>
    /\ k = << >>
    /\ alphas = << >>
    /\ ciphertext = << >>
    /\ data = << >>
    /\ gas_price = 0
    /\ signed = << >>
    /\ sent = << >>
    /\ reads = [i \in 0 .. (MaxCounter - 1) |-> 0]
    /\ trace = << >>
    /\ rDraws = 0

Init ==
    /\ committee \in ChainStates
    /\ committeeSize \in 0 .. MaxCommittee
    /\ taskId = 1
    /\ pc = "idle"
    /\ sealLog = {}
    /\ LocalsInit

----------------------------------------------------------------------------
(* Actions *)

chainVars == <<committeeSize, committee>>
argVars == <<caller, now, n, decryption_time>>
scanVars == <<committee_size, counter, agents, reads>>
encVars == <<r, g1r, g2r, k, alphas, rDraws>>
txVars == <<data, gas_price, signed, sent>>

\* main: lines 60-63
Main ==
    /\ pc = "idle"
    /\ \E time \in 0 .. MaxTime :
          /\ now' = time
          /\ decryption_time' = MainDecryptionTime(time)
    /\ n' = MainN
    /\ caller' = "main"
    /\ pc' = "threshold"
    /\ UNCHANGED <<chainVars, taskId, t, scanVars, indexes, pks, encVars, ciphertext,
                   txVars, trace, sealLog>>

\* send_time_lock_message entered with arbitrary arguments: line 67
Call ==
    /\ pc = "idle"
    /\ now' \in 0 .. MaxTime
    /\ decryption_time' \in 0 .. (MaxTime + 1)
    /\ n' \in 1 .. MaxN
    /\ caller' = "direct"
    /\ pc' = "threshold"
    /\ UNCHANGED <<chainVars, taskId, t, scanVars, indexes, pks, encVars, ciphertext,
                   txVars, trace, sealLog>>

\* line 69
ComputeThreshold ==
    /\ pc = "threshold"
    /\ t' = get_threshold(n)
    /\ pc' = Successor(pc)
    /\ UNCHANGED <<chainVars, taskId, argVars, scanVars, indexes, pks, encVars,
                   ciphertext, txVars, trace, sealLog>>

\* get_agent_list, lines 104-108
ReadCommitteeSize ==
    /\ pc = "csize"
    /\ committee_size' = committeeSize
    /\ counter' = 0
    /\ agents' = << >>
    /\ trace' = Append(trace, <<"resolve", "start">>)
    /\ pc' = Successor(pc)
    /\ UNCHANGED <<chainVars, taskId, argVars, t, reads, indexes, pks, encVars,
                   ciphertext, txVars, sealLog>>

\* get_agent_list, one iteration of the loop: lines 109-116
ScanStep ==
    /\ pc = "scan"
    /\ ScanContinues(agents, committee_size)
    /\ counter < MaxCounter
    /\ agents' = ScanBody(agents, counter, get_agent_address(counter))
    /\ reads' = [reads EXCEPT ![counter] = @ + 1]
    /\ counter' = counter + 1
    /\ UNCHANGED <<chainVars, taskId, argVars, pc, t, committee_size, indexes, pks,
                   encVars, ciphertext, txVars, trace, sealLog>>

\* get_agent_list, loop exit and return: lines 109, 117
ScanReturn ==
    /\ pc = "scan"
    /\ ~ScanContinues(agents, committee_size)
    /\ trace' = Append(trace, <<"resolve", "end">>)
    /\ pc' = Successor(pc)
    /\ UNCHANGED <<chainVars, taskId, argVars, t, scanVars, indexes, pks, encVars,
                   ciphertext, txVars, sealLog>>

\* lines 71-72: keys in HashMap iteration order, public keys aligned
CollectKeys ==
    /\ pc = "collect"
    /\ \E order \in KeyOrders(agents) :
          /\ indexes' = order
          /\ pks' = [i \in 1 .. Len(order) |-> agents[order[i]].pk]
    /\ pc' = Successor(pc)
    /\ UNCHANGED <<chainVars, taskId, argVars, t, scanVars, encVars, ciphertext,
                   txVars, trace, sealLog>>

\* line 73
GenR ==
    /\ pc = "gen_r"
    /\ r' \in gen_r_values
    /\ rDraws' = rDraws + 1
    /\ trace' = Append(trace, <<"encapsulate", "start">>)
    /\ pc' = Successor(pc)
    /\ UNCHANGED <<chainVars, taskId, argVars, t, scanVars, indexes, pks, g1r, g2r, k,
                   alphas, ciphertext, txVars, sealLog>>

\* lines 74-75
Commit ==
    /\ pc = "commit"
    /\ g1r' = get_g1r(r)
    /\ g2r' = get_g2r(r)
    /\ pc' = Successor(pc)
    /\ UNCHANGED <<chainVars, taskId, argVars, t, scanVars, indexes, pks, r, k, alphas,
                   rDraws, ciphertext, txVars, trace, sealLog>>

\* line 76
DeriveShares ==
    /\ pc = "shares"
    /\ k' = get_k_and_alphas(r, indexes, pks, t)[1]
    /\ alphas' = get_k_and_alphas(r, indexes, pks, t)[2]
    /\ trace' = Append(trace, <<"encapsulate", "end">>)
    /\ pc' = Successor(pc)
    /\ UNCHANGED <<chainVars, taskId, argVars, t, scanVars, indexes, pks, r, g1r, g2r,
                   rDraws, ciphertext, txVars, sealLog>>

\* line 77
Seal ==
    /\ pc = "seal"
    /\ ciphertext' = encrypt(message, k, FixedNonce)
    /\ sealLog' = sealLog \cup {[task |-> taskId, key |-> k, nonce |-> FixedNonce]}
    /\ trace' = trace \o << <<"seal", "start">>, <<"seal", "end">> >>
    /\ pc' = Successor(pc)
    /\ UNCHANGED <<chainVars, taskId, argVars, t, scanVars, indexes, pks, encVars,
                   txVars>>

\* lines 79-86
Encode ==
    /\ pc = "encode"
    /\ data' = make_data(decryption_time, g1r, g2r, alphas)
    /\ trace' = Append(trace, <<"submit", "start">>)
    /\ pc' = Successor(pc)
    /\ UNCHANGED <<chainVars, taskId, argVars, t, scanVars, indexes, pks, encVars,
                   ciphertext, gas_price, signed, sent, sealLog>>

\* line 88: gas price = current network price * 15 / 10
ReadGasPrice ==
    /\ pc = "gas"
    /\ \E price \in NetworkGasPrices : gas_price' = (price * 15) \div 10
    /\ pc' = Successor(pc)
    /\ UNCHANGED <<chainVars, taskId, argVars, t, scanVars, indexes, pks, encVars,
                   ciphertext, data, signed, sent, trace, sealLog>>

\* lines 89-90
Sign ==
    /\ pc = "sign"
    /\ signed' = [data |-> data, gas_price |-> gas_price]
    /\ pc' = Successor(pc)
    /\ UNCHANGED <<chainVars, taskId, argVars, t, scanVars, indexes, pks, encVars,
                   ciphertext, data, gas_price, sent, trace, sealLog>>

\* lines 91-93
Send ==
    /\ pc = "send"
    /\ sent' = Append(sent, signed)
    /\ trace' = Append(trace, <<"submit", "end">>)
    /\ pc' = Successor(pc)
    /\ UNCHANGED <<chainVars, taskId, argVars, t, scanVars, indexes, pks, encVars,
                   ciphertext, data, gas_price, signed, sealLog>>

\* an RPC call returns an error and `.unwrap()` panics: lines 105, 121, 126, 88, 91
RpcFail ==
    /\ \/ pc \in {"csize", "gas", "send"}
       \/ pc = "scan" /\ ScanContinues(agents, committee_size) /\ counter < MaxCounter
    /\ pc' = "panicked"
    /\ UNCHANGED <<chainVars, taskId, argVars, t, scanVars, indexes, pks, encVars,
                   ciphertext, txVars, trace, sealLog>>

\* the registered public key is not a valid compressed point: lines 127-128
DecodeFail ==
    /\ pc = "scan"
    /\ ScanContinues(agents, committee_size)
    /\ counter < MaxCounter
    /\ get_agent_address(counter) # 0
    /\ pc' = "panicked"
    /\ UNCHANGED <<chainVars, taskId, argVars, t, scanVars, indexes, pks, encVars,
                   ciphertext, txVars, trace, sealLog>>

\* the secret key does not parse, or signing fails: lines 89-90
SignFail ==
    /\ pc = "sign"
    /\ pc' = "panicked"
    /\ UNCHANGED <<chainVars, taskId, argVars, t, scanVars, indexes, pks, encVars,
                   ciphertext, txVars, trace, sealLog>>

\* the client is run again: a new process, a new Task
NewTask ==
    /\ pc \in {"done", "panicked"}
    /\ taskId + 1 \in TaskIds
    /\ taskId' = taskId + 1
    /\ pc' = "idle"
    /\ caller' = "none"
    /\ now' = 0
    /\ n' = 0
    /\ decryption_time' = 0
    /\ t' = 0
    /\ committee_size' = 0
    /\ counter' = 0
    /\ agents' = << >>
    /\ indexes' = << >>
    /\ pks' = << >>
    /\ r' = 0
    /\ g1r' = << >>
    /\ g2r' = << >>
    /\ k' = << >>
    /\ alphas' = << >>
    /\ ciphertext' = << >>
    /\ data' = << >>
    /\ gas_price' = 0
    /\ signed' = << >>
    /\ sent' = << >>
    /\ reads' = [i \in 0 .. (MaxCounter - 1) |-> 0]
    /\ trace' = << >>
    /\ rDraws' = 0
    /\ UNCHANGED <<chainVars, sealLog>>

Next ==
    \/ Main
    \/ Call
    \/ ComputeThreshold
    \/ ReadCommitteeSize
    \/ ScanStep
    \/ ScanReturn
    \/ CollectKeys
    \/ GenR
    \/ Commit
    \/ DeriveShares
    \/ Seal
    \/ Encode
    \/ ReadGasPrice
    \/ Sign
    \/ Send
    \/ RpcFail
    \/ DecodeFail
    \/ SignFail
    \/ NewTask

Spec == Init /\ [][Next]_vars

----------------------------------------------------------------------------
(* get_threshold on its own: every n of 1 .. MaxThresholdN *)

ThresholdInit ==
    /\ committee = [i \in Slots |-> 0]
    /\ committeeSize = 0
    /\ taskId = 1
    /\ pc = "threshold_call"
    /\ sealLog = {}
    /\ caller = "direct"
    /\ now = 0
    /\ n \in 1 .. MaxThresholdN
    /\ decryption_time = 0
    /\ t = 0
    /\ committee_size = 0
    /\ counter = 0
    /\ agents = << >>
    /\ indexes = << >>
    /\ pks = << >>
    /\ r = 0
    /\ g1r = << >>
    /\ g2r = << >>
    /\ k = << >>
    /\ alphas = << >>
    /\ ciphertext = << >>
    /\ data = << >>
    /\ gas_price = 0
    /\ signed = << >>
    /\ sent = << >>
    /\ reads = [i \in 0 .. (MaxCounter - 1) |-> 0]
    /\ trace = << >>
    /\ rDraws = 0

ThresholdCall ==
    /\ pc = "threshold_call"
    /\ t' = get_threshold(n)
    /\ pc' = "threshold_ret"
    /\ UNCHANGED <<chainVars, taskId, argVars, scanVars, indexes, pks, encVars,
                   ciphertext, txVars, trace, sealLog>>

ThresholdNext == ThresholdCall

ThresholdSpec == ThresholdInit /\ [][ThresholdNext]_vars

----------------------------------------------------------------------------
(* Claims about get_threshold, checked under ThresholdSpec *)

\* ceil(51*n/100) in exact integer arithmetic
Ceil51Percent(x) == (51 * x + 99) \div 100

\* C1: for every committee size n >= 1, get_threshold(n) is the smallest
\* integer >= 0.51*n, that is ceil(51*n/100).
C1_ThresholdIsCeil51Percent ==
    pc = "threshold_ret" => t = Ceil51Percent(n)

----------------------------------------------------------------------------
(* get_agent_list on its own: the scan from the committee-size read to the *)
(* return, every step taken as long as one is possible                     *)

ScanInit ==
    /\ committee \in ChainStates
    /\ committeeSize \in 0 .. MaxCommittee
    /\ taskId = 1
    /\ pc = "csize"
    /\ sealLog = {}
    /\ LocalsInit

ScanNext ==
    \/ ReadCommitteeSize
    \/ ScanStep
    \/ ScanReturn
    \/ RpcFail
    \/ DecodeFail

ScanSpec ==
    /\ ScanInit
    /\ [][ScanNext]_vars
    /\ WF_vars(ReadCommitteeSize)
    /\ WF_vars(ScanStep)
    /\ WF_vars(ScanReturn)

----------------------------------------------------------------------------
(* Claims about get_agent_list *)

\* the index slots the model can read, and those holding a non-zero address
ReadableSlots == 0 .. (MaxCounter - 1)

NonZeroSlots == {i \in ReadableSlots : get_agent_address(i) # 0}

\* the positions of the first cnt non-zero slots
FirstNonZeroSlots(cnt) ==
    {i \in NonZeroSlots : Cardinality({j \in NonZeroSlots : j < i}) < cnt}

EnoughNonZeroSlots == Cardinality(NonZeroSlots) >= committeeSize

\* the position of the committeeSize-th non-zero slot (-1 when committeeSize = 0)
LastScannedSlot ==
    IF committeeSize = 0 \/ ~EnoughNonZeroSlots THEN -1
    ELSE CHOOSE i \in FirstNonZeroSlots(committeeSize) :
            \A j \in FirstNonZeroSlots(committeeSize) : j <= i

\* get_agent_list has returned its map
AgentListReturned == Len(trace) >= 2 /\ trace[2] = <<"resolve", "end">>

\* C3: when the slots hold at least committee_size non-zero addresses, the
\* returned map has exactly committee_size entries, keyed by the positions of
\* the first committee_size non-zero slots; each Agent's id is its slot
\* position and its address the slot's address; zero slots add no entry.
C3_AgentListIsFirstNonZeroSlots ==
    (AgentListReturned /\ EnoughNonZeroSlots) =>
        /\ Len_agents(agents) = committeeSize
        /\ DOMAIN agents = FirstNonZeroSlots(committeeSize)
        /\ \A i \in DOMAIN agents :
              /\ agents[i].id = i
              /\ agents[i].address = get_agent_address(i)
              /\ agents[i].address # 0

\* C3 witness: a committee of two resolved across an unassigned slot
C3_Witness ==
    /\ AgentListReturned
    /\ committeeSize = 2
    /\ get_agent_address(0) # 0
    /\ get_agent_address(1) = 0
    /\ get_agent_address(2) # 0
    /\ DOMAIN agents = {0, 2}

\* state part of C10
C10_ScanReads ==
    /\ AgentListReturned =>
          /\ EnoughNonZeroSlots
          /\ \A i \in ReadableSlots : reads[i] = IF i <= LastScannedSlot THEN 1 ELSE 0
    /\ pc = "scan" =>
          /\ \A i \in ReadableSlots : reads[i] = IF i < counter THEN 1 ELSE 0
          /\ EnoughNonZeroSlots => counter <= LastScannedSlot + 1

\* C10: with every read succeeding the scan returns if and only if the slots
\* hold at least committee_size non-zero addresses; on return it has read
\* each slot from 0 to the committee_size-th non-zero slot exactly once and
\* none beyond (no read when committee_size = 0); with fewer non-zero slots
\* it never returns.
C10_ScanTerminatesIffEnough ==
    /\ []C10_ScanReads
    /\ (pc = "scan" /\ EnoughNonZeroSlots) ~> (AgentListReturned \/ pc = "panicked")

\* C10 witness: the scan has returned after reading past an unassigned slot
\* and no further than the last committee member
C10_Witness ==
    /\ AgentListReturned
    /\ committeeSize = 2
    /\ get_agent_address(0) = 0
    /\ reads[0] = 1
    /\ LastScannedSlot = 2
    /\ reads[2] = 1
    /\ reads[3] = 0

----------------------------------------------------------------------------
(* Claims about send_time_lock_message, checked under Spec *)

\* the transaction has been accepted by the node
Submitted == pc = "done"

\* the transcript carried by the submitted transaction
SubmittedTranscript == sent[1].data

StageEnded(stage) == \E i \in 1 .. Len(trace) : trace[i] = <<stage, "end">>

\* C4: the submitted transcript holds n shares, n being the committee size
\* the threshold t was computed from; every share belongs to a distinct agent
\* id of the resolved committee, so 1 <= t <= |shares|.  (Stated for chains
\* that report a committee of at least one agent.)
C4_SharesMatchThresholdCommittee ==
    (Submitted /\ committeeSize >= 1) =>
        LET shares == SubmittedTranscript.alphas
        IN  /\ Len(shares) = n
            /\ \A i, j \in 1 .. Len(shares) : shares[i].x = shares[j].x => i = j
            /\ \A i \in 1 .. Len(shares) : shares[i].x \in DOMAIN agents
            /\ 1 <= t
            /\ t <= Len(shares)

\* C5: the nonce handed to encrypt is derived per Task: two different Tasks
\* never seal with the same nonce, so no (k, nonce) pair seals twice.
C5_NonceIsPerTask ==
    \A a, b \in sealLog :
        a.task # b.task =>
            /\ a.nonce # b.nonce
            /\ <<a.key, a.nonce>> # <<b.key, b.nonce>>

\* state part of C6
C6_SubmissionIsWhole ==
    /\ Len(sent) <= 1
    /\ pc = "panicked" => sent = << >>
    /\ Len(sent) = 1 =>
          /\ Submitted
          /\ sent[1] = signed
          /\ SubmittedTranscript.decryptionTime = decryption_time
          /\ SubmittedTranscript.g1r = g1r /\ g1r # << >>
          /\ SubmittedTranscript.g2r = g2r /\ g2r # << >>
          /\ SubmittedTranscript.alphas = alphas
          /\ Len(SubmittedTranscript.alphas) = Len_agents(agents)
          /\ StageEnded("resolve")
          /\ StageEnded("encapsulate")
          /\ StageEnded("seal") /\ ciphertext # << >>
          /\ sent[1].gas_price = gas_price /\ gas_price > 0

\* C6: a run sends at most one transaction, carrying the whole transcript,
\* and only after resolution, encapsulation, sealing, the gas-price read and
\* signing succeeded; a failed step ends the run: nothing is sent afterwards
\* and no step is taken again.
C6_UnsubmittedOrFullySubmitted ==
    /\ []C6_SubmissionIsWhole
    /\ [][(pc = "panicked" /\ taskId' = taskId) => UNCHANGED vars]_vars
    /\ [][(taskId' = taskId /\ sent' # sent) => (pc = "send" /\ sent = << >>)]_vars

\* C6 witness: a transcript with several shares has been submitted
C6_Witness ==
    /\ Submitted
    /\ Len(sent) = 1
    /\ Len(SubmittedTranscript.alphas) >= 2

ExpectedTrace ==
    << <<"resolve", "start">>, <<"resolve", "end">>,
       <<"encapsulate", "start">>, <<"encapsulate", "end">>,
       <<"seal", "start">>, <<"seal", "end">>,
       <<"submit", "start">>, <<"submit", "end">> >>

IsPrefix(s, full) == Len(s) <= Len(full) /\ \A i \in 1 .. Len(s) : s[i] = full[i]

\* C8: within one Task the stages run in strict order, each after the
\* previous one completed and none twice: committee resolution, encapsulation
\* (one scalar r, drawn once, behind R1, R2, the shares and the key), sealing
\* under k, submission.
C8_StagesInStrictOrder ==
    /\ IsPrefix(trace, ExpectedTrace)
    /\ rDraws <= 1
    /\ Submitted => trace = ExpectedTrace
    /\ g1r # << >> => (rDraws = 1 /\ g1r = get_g1r(r) /\ g2r = get_g2r(r))
    /\ k # << >> =>
          /\ k = get_k_and_alphas(r, indexes, pks, t)[1]
          /\ \A i \in 1 .. Len(alphas) : alphas[i].r = r
          /\ StageEnded("resolve")
    /\ ciphertext # << >> => (ciphertext.key = k /\ StageEnded("encapsulate"))
    /\ data # << >> => StageEnded("seal")

\* C8 witness: all four stages have run
C8_Witness ==
    /\ Submitted
    /\ trace = ExpectedTrace
    /\ rDraws = 1
    /\ SubmittedTranscript.g1r = get_g1r(r)

IsAscending(s) == \A i, j \in 1 .. Len(s) : i < j => s[i] < s[j]

\* C9: the agent ids (and the aligned public keys) handed to encapsulation
\* are sorted ascending, so the i-th submitted share belongs to the agent with
\* the i-th smallest id, whatever the map's iteration order.
C9_CommitteeConsumedAscending ==
    /\ IsAscending(indexes)
    /\ \A i \in 1 .. Len(pks) : pks[i] = agents[indexes[i]].pk
    /\ Submitted => IsAscending([i \in 1 .. Len(alphas) |-> SubmittedTranscript.alphas[i].x])

====
